---- MODULE Spec2Model ----
(***************************************************************************)
(* Model of the ssr_modes demo application (src/src/app.rs): the POSTS     *)
(* store, the two server functions list_post_metadata and get_post, the    *)
(* HomePage and Post components with their resources, and the route table  *)
(* of App.  Each connection carries one page load at a time.               *)
(***************************************************************************)
EXTENDS Integers, Sequences, FiniteSets, TLC

\* Number of connections whose page loads the runtime interleaves.
NumConns == 2

Conns == 1..NumConns

(***************************************************************************)
(* Values                                                                  *)
(***************************************************************************)

None == [some |-> FALSE]

Some(x) == [some |-> TRUE, val |-> x]

Ok(x) == [tag |-> "Ok", val |-> x]

Err(e) == [tag |-> "Err", err |-> e]

\* enum PostError, and its #[error(...)] Display strings
PostError == {"InvalidId", "PostNotFound", "ServerError"}

to_string(e) ==
    CASE e = "InvalidId" -> "Invalid post ID."
      [] e = "PostNotFound" -> "Post not found."
      [] e = "ServerError" -> "Server error."

\* lazy_static! POSTS
POSTS ==
    << [id |-> 0, title |-> "My first post", content |-> "This is my first post"],
       [id |-> 1, title |-> "My second post", content |-> "This is my second post"],
       [id |-> 2, title |-> "My third post", content |-> "This is my third post"] >>

(***************************************************************************)
(* Text: path segments are sequences of characters.                        *)
(***************************************************************************)

Digits == <<"0", "1", "2", "3", "4", "5", "6", "7", "8", "9">>

IsDigit(ch) == \E i \in 1..Len(Digits) : Digits[i] = ch

DigitVal(ch) == (CHOOSE i \in 1..Len(Digits) : Digits[i] = ch) - 1

RECURSIVE DigitsValue(_)
DigitsValue(s) ==
    IF s = <<>> THEN 0
    ELSE DigitsValue(SubSeq(s, 1, Len(s) - 1)) * Len(Digits) + DigitVal(s[Len(s)])

\* <usize as FromStr>::from_str: an optional leading '+', then one or more
\* decimal digits; anything else is a parse error.
usize_from_str(s) ==
    LET body == IF s # <<>> /\ s[1] = "+" THEN Tail(s) ELSE s
    IN  IF body # <<>> /\ \A i \in 1..Len(body) : IsDigit(body[i])
        THEN Ok(DigitsValue(body))
        ELSE Err("ParseIntError")

\* <usize as Display>::fmt, as used by format!("/post/{}", post.id)
RECURSIVE usize_to_string(_)
usize_to_string(n) ==
    IF n < Len(Digits) THEN <<Digits[n + 1]>>
    ELSE usize_to_string(n \div Len(Digits)) \o <<Digits[(n % Len(Digits)) + 1]>>

SegPost == <<"p", "o", "s", "t">>

SegPostInOrder == <<"p", "o", "s", "t", "_", "i", "n", "_", "o", "r", "d", "e", "r">>

SegNonexistent == <<"n", "o", "n", "e", "x", "i", "s", "t", "e", "n", "t">>

\* The id segments requests are made with: seed ids, an absent id, and
\* segments that are no usize.
IdSegments ==
    { <<"0">>, <<"1">>, <<"2">>, <<"9", "9", "9">>, <<"+", "1">>,
      <<"a", "b", "c">>, <<"-", "1">> }

\* The request paths, as sequences of segments ("/" is the empty sequence).
Paths ==
    { <<>>, <<SegNonexistent>>, <<SegPost>>, <<SegPost, <<"1">>, <<"x">>>> }
    \cup { <<SegPost, s>> : s \in IdSegments }
    \cup { <<SegPostInOrder, s>> : s \in IdSegments }

(***************************************************************************)
(* Router: the route table of App                                          *)
(***************************************************************************)

StaticSegment(s) == [kind |-> "static", name |-> s]

ParamSegment(n) == [kind |-> "param", name |-> n]

\* Mutant of Routes: the two post routes' ssr modes exchanged.
Routes_mut ==
    << [path |-> <<>>, view |-> "HomePage", ssr |-> "OutOfOrder"],
       [path |-> <<StaticSegment(SegPost), ParamSegment("id")>>,
        view |-> "Post", ssr |-> "InOrder"],
       [path |-> <<StaticSegment(SegPostInOrder), ParamSegment("id")>>,
        view |-> "Post", ssr |-> "Async"] >>

\* <FlatRoutes> children, in order.  StaticSegment("") matches the root and
\* consumes no segment.  A route without ssr= has the default mode.
Routes ==
    << [path |-> <<>>, view |-> "HomePage", ssr |-> "OutOfOrder"],
       [path |-> <<StaticSegment(SegPost), ParamSegment("id")>>,
        view |-> "Post", ssr |-> "Async"],
       [path |-> <<StaticSegment(SegPostInOrder), ParamSegment("id")>>,
        view |-> "Post", ssr |-> "InOrder"] >>

\* Mutant of RouteMatches: a route matches any path it is a prefix of.
RouteMatches_mut(route, p) ==
    /\ Len(p) >= Len(route.path)
    /\ \A i \in 1..Len(route.path) :
          \/ route.path[i].kind = "static" /\ p[i] = route.path[i].name
          \/ route.path[i].kind = "param" /\ p[i] # <<>>

\* A flat route matches when every segment of the path is consumed.
RouteMatches(route, p) ==
    /\ Len(p) = Len(route.path)
    /\ \A i \in 1..Len(p) :
          \/ route.path[i].kind = "static" /\ p[i] = route.path[i].name
          \/ route.path[i].kind = "param" /\ p[i] # <<>>

\* The params map of a matched route.
RouteParams(route, p) ==
    LET ps == {i \in 1..Len(route.path) : route.path[i].kind = "param"}
    IN  [n \in {route.path[i].name : i \in ps} |->
            p[CHOOSE i \in ps : route.path[i].name = n]]

FallbackRoute == [path |-> <<>>, view |-> "Fallback", ssr |-> "OutOfOrder"]

\* First matching route, else the fallback.
MatchRoute(p) ==
    IF \E i \in 1..Len(Routes) : RouteMatches(Routes[i], p)
    THEN Routes[CHOOSE i \in 1..Len(Routes) :
                  /\ RouteMatches(Routes[i], p)
                  /\ \A j \in 1..(i - 1) : ~RouteMatches(Routes[j], p)]
    ELSE FallbackRoute

NoParams == [n \in {} |-> <<>>]

(***************************************************************************)
(* Post component: params and the id closure                               *)
(***************************************************************************)

\* #[derive(Params)] struct PostParams { id: Option<usize> }: an absent key
\* is Ok(id: None), a present key is parsed, a parse error fails the params.
PostParams_from_map(map) ==
    IF "id" \notin DOMAIN map THEN Ok([id |-> None])
    ELSE LET r == usize_from_str(map["id"])
         IN  IF r.tag = "Ok" THEN Ok([id |-> Some(r.val)]) ELSE Err("ParamsError")

unwrap_or_default(o) == IF o.some THEN o.val ELSE 0

\* Mutant of id: a params error falls back to the default id too.
id_mut(query) ==
    IF query.tag = "Ok" THEN Ok(unwrap_or_default(query.val.id)) ELSE Ok(0)

\* let id = move || query.read().as_ref()
\*     .map(|q| q.id.unwrap_or_default()).map_err(|_| PostError::InvalidId)
id(query) ==
    IF query.tag = "Ok" THEN Ok(unwrap_or_default(query.val.id))
    ELSE Err("InvalidId")

(***************************************************************************)
(* Server functions                                                        *)
(***************************************************************************)

\* Mutant of list_post_metadata: the entries keep the content.
list_post_metadata_mut(s) == Ok(s)

\* POSTS.iter().map(|data| PostMetadata { id, title }).collect()
list_post_metadata(s) ==
    Ok([i \in 1..Len(s) |-> [id |-> s[i].id, title |-> s[i].title]])

\* Mutant of find: takes the id for a position in the store.
find_mut(s, n) == IF n \in 1..Len(s) THEN Some(s[n]) ELSE None

\* POSTS.iter().find(|post| post.id == id).cloned()
find(s, n) ==
    IF \E i \in 1..Len(s) : s[i].id = n
    THEN Some(s[CHOOSE i \in 1..Len(s) :
                  s[i].id = n /\ \A j \in 1..(i - 1) : s[j].id # n])
    ELSE None

get_post(s, n) == Ok(find(s, n))

(***************************************************************************)
(* State                                                                   *)
(***************************************************************************)

\* store: the contents of POSTS.  page[c]: the page load on connection c:
\* the matched view and its ssr mode, the Post component's query and
\* post_resource, the HomePage component's posts and post_count resources
\* and posts_view, the server-function call in flight, the response chunks
\* emitted so far, the errors held by the ErrorBoundary, and the number of
\* server-function calls this page load has made.
VARIABLES store, page

vars == <<store, page>>

Unset == [tag |-> "Unset"]

Loading == [tag |-> "Loading"]

NoCall == [fn |-> "none"]

Resolved(r) == r.tag \in {"Ok", "Err"}

\* <Title text="Welcome to Leptos"/>, no description
AppMeta == [title |-> "Welcome to Leptos", description |-> None]

IdlePage ==
    [view |-> "Idle", ssr |-> "OutOfOrder", path |-> <<>>, query |-> Unset,
     post_resource |-> Unset, post_view |-> Unset,
     posts |-> Unset, post_count |-> Unset, posts_view |-> Unset,
     call |-> NoCall, delivered |-> Unset, meta |-> AppMeta,
     out |-> <<>>, errors |-> <<>>, get_post_calls |-> 0, list_calls |-> 0]

(***************************************************************************)
(* Response stream by SsrMode                                              *)
(***************************************************************************)

\* What is sent when the route's view is mounted: nothing in Async mode,
\* otherwise the document up to the first <Suspense/>.
ShellChunks(ssr, meta, body) ==
    IF ssr = "Async" THEN <<>>
    ELSE <<[part |-> "shell", head |-> Some(meta), body |-> body]>>

\* What is sent when the <Suspense/> has resolved: the whole document in
\* Async mode (head included), otherwise the suspended content alone.
ResolvedChunks(ssr, meta, shell, body) ==
    IF ssr = "Async"
    THEN <<[part |-> "page", head |-> Some(meta), body |-> <<shell, body>>]>>
    ELSE <<[part |-> "content", head |-> None, body |-> body]>>

(***************************************************************************)
(* Components                                                              *)
(***************************************************************************)

\* Post(), up to the first await of the resource's fetcher: an Err id
\* resolves the resource at once, an Ok id calls get_post.
Post(ssr, p, map) ==
    LET query == PostParams_from_map(map)
        i == id(query)
    IN  [IdlePage EXCEPT
            !.view = "Post", !.ssr = ssr, !.path = p, !.query = query,
            !.post_resource = IF i.tag = "Err" THEN Err(i.err) ELSE Loading,
            !.post_view = Loading,
            !.call = IF i.tag = "Ok"
                     THEN [fn |-> "get_post", arg |-> i.val, stage |-> "sent"]
                     ELSE NoCall,
            !.get_post_calls = IF i.tag = "Ok" THEN 1 ELSE 0,
            !.out = ShellChunks(ssr, AppMeta, "The world's best content.")]

\* HomePage(): the posts resource calls list_post_metadata; post_count and
\* posts_view wait for it.
HomePage(ssr, p) ==
    [IdlePage EXCEPT
        !.view = "HomePage", !.ssr = ssr, !.path = p,
        !.posts = Loading, !.post_count = Loading, !.posts_view = Loading,
        !.call = [fn |-> "list_post_metadata", arg |-> <<>>, stage |-> "sent"],
        !.list_calls = 1,
        !.out = ShellChunks(ssr, AppMeta, "Loading posts...")]

\* let fallback = || view! { "Page not found." }
Fallback(p) ==
    [IdlePage EXCEPT
        !.view = "Fallback", !.path = p,
        !.out = <<[part |-> "page", head |-> Some(AppMeta),
                   body |-> "Page not found."]>>]

\* The view the router mounts for a request path.
Mount(p) ==
    LET route == MatchRoute(p)
    IN  CASE route.view = "HomePage" -> HomePage(route.ssr, p)
          [] route.view = "Post" -> Post(route.ssr, p, RouteParams(route, p))
          [] OTHER -> Fallback(p)

\* data.ok_or(e)
ok_or(o, e) == IF o.some THEN Ok(o.val) ELSE Err(e)

\* Mutant of post_fetcher: an absent post becomes the default post.
post_fetcher_mut(reply) ==
    IF reply.tag = "Ok"
    THEN Ok(Ok(IF reply.val.some THEN reply.val.val
               ELSE [id |-> 0, title |-> "", content |-> ""]))
    ELSE Err("ServerError")

\* get_post(id).await.map(|data| data.ok_or(PostError::PostNotFound))
\*                    .map_err(|_| PostError::ServerError)
post_fetcher(reply) ==
    IF reply.tag = "Ok" THEN Ok(ok_or(reply.val, "PostNotFound"))
    ELSE Err("ServerError")

\* Mutant of post_view: the error kept as the resource holds it.
post_view_mut(r) ==
    IF r.tag = "Ok" /\ r.val.tag = "Ok"
    THEN Ok([h1 |-> r.val.val.title, p |-> r.val.val.content,
             Title |-> r.val.val.title, Meta |-> r.val.val.content])
    ELSE IF r.tag = "Ok" THEN Err(r.val.err) ELSE Err(r.err)

\* match post_resource.await { Ok(Ok(post)) => Ok(view!{..}), _ => Err(ServerError) }
post_view(r) ==
    IF r.tag = "Ok" /\ r.val.tag = "Ok"
    THEN Ok([h1 |-> r.val.val.title, p |-> r.val.val.content,
             Title |-> r.val.val.title, Meta |-> r.val.val.content])
    ELSE Err("ServerError")

\* <ErrorBoundary fallback=..>: the list of the errors' to_string()
ErrorBlock(errors) ==
    [class |-> "error", h1 |-> "Something went wrong.",
     ul |-> [i \in 1..Len(errors) |-> to_string(errors[i])]]

\* posts.into_iter().map(|post| view!{ <li>..</li> }).collect()
posts_view(r) ==
    IF r.tag = "Ok"
    THEN Ok([i \in 1..Len(r.val) |->
               [async_href |-> <<SegPost, usize_to_string(r.val[i].id)>>,
                in_order_href |-> <<SegPostInOrder, usize_to_string(r.val[i].id)>>,
                title |-> r.val[i].title]])
    ELSE Err("ServerFnError")

\* posts.await.unwrap_or_default().len()
post_count(r) == IF r.tag = "Ok" THEN Len(r.val) ELSE 0

(***************************************************************************)
(* Actions                                                                 *)
(***************************************************************************)

Init ==
    /\ store = POSTS
    /\ page = [c \in Conns |-> IdlePage]

\* A request for path p arrives on an idle connection; the router mounts
\* the matching view.
Navigate(c, p) ==
    /\ page[c].view = "Idle"
    /\ page' = [page EXCEPT ![c] = Mount(p)]
    /\ UNCHANGED store

\* Mutant of ServeGetPost: the post found is taken out of the store.
ServeGetPost_mut(c) ==
    /\ page[c].call.fn = "get_post"
    /\ page[c].call.stage = "sent"
    /\ page' = [page EXCEPT ![c].call =
                  [fn |-> "get_post", arg |-> page[c].call.arg, stage |-> "replied",
                   reply |-> get_post(store, page[c].call.arg)]]
    /\ store' = SelectSeq(store, LAMBDA post : post.id # page[c].call.arg)

\* The server runs get_post for the call in flight.
ServeGetPost(c) ==
    /\ page[c].call.fn = "get_post"
    /\ page[c].call.stage = "sent"
    /\ page' = [page EXCEPT ![c].call =
                  [fn |-> "get_post", arg |-> page[c].call.arg, stage |-> "replied",
                   reply |-> get_post(store, page[c].call.arg)]]
    /\ UNCHANGED store

\* The server runs list_post_metadata for the call in flight.
ServeListPostMetadata(c) ==
    /\ page[c].call.fn = "list_post_metadata"
    /\ page[c].call.stage = "sent"
    /\ page' = [page EXCEPT ![c].call =
                  [fn |-> "list_post_metadata", arg |-> <<>>, stage |-> "replied",
                   reply |-> list_post_metadata(store)]]
    /\ UNCHANGED store

\* The call fails in transport: the caller gets Err(ServerFnError).
TransportFail(c) ==
    /\ page[c].call.fn # "none"
    /\ page[c].call.stage = "sent"
    /\ page' = [page EXCEPT ![c].call =
                  [fn |-> page[c].call.fn, arg |-> page[c].call.arg,
                   stage |-> "failed", reply |-> Err("ServerFnError")]]
    /\ UNCHANGED store

\* get_post(id).await returns; the fetcher maps it and post_resource resolves.
ResolvePostResource(c) ==
    /\ page[c].call.fn = "get_post"
    /\ page[c].call.stage \in {"replied", "failed"}
    /\ page' = [page EXCEPT
                  ![c].post_resource = post_fetcher(page[c].call.reply),
                  ![c].delivered = page[c].call.reply,
                  ![c].call = NoCall]
    /\ UNCHANGED store

\* post_resource.await returns in post_view; the view or the error goes to
\* the ErrorBoundary, and the <Suspense/> content is sent.
RenderPost(c) ==
    /\ page[c].view = "Post"
    /\ Resolved(page[c].post_resource)
    /\ page[c].post_view = Loading
    /\ LET v == post_view(page[c].post_resource)
           errors == IF v.tag = "Err" THEN <<v.err>> ELSE <<>>
           meta == IF v.tag = "Ok"
                   THEN [title |-> v.val.Title, description |-> Some(v.val.Meta)]
                   ELSE page[c].meta
           body == IF v.tag = "Ok" THEN [h1 |-> v.val.h1, p |-> v.val.p]
                   ELSE ErrorBlock(errors)
       IN  page' = [page EXCEPT
                      ![c].post_view = v,
                      ![c].errors = errors,
                      ![c].meta = meta,
                      ![c].out = @ \o ResolvedChunks(page[c].ssr, meta,
                                        "The world's best content.", body)]
    /\ UNCHANGED store

\* list_post_metadata().await returns; posts resolves.
ResolvePosts(c) ==
    /\ page[c].call.fn = "list_post_metadata"
    /\ page[c].call.stage \in {"replied", "failed"}
    /\ page' = [page EXCEPT
                  ![c].posts = page[c].call.reply,
                  ![c].delivered = page[c].call.reply,
                  ![c].call = NoCall]
    /\ UNCHANGED store

\* Mutant of ResolvePostCount: does not wait for posts.
ResolvePostCount_mut(c) ==
    /\ page[c].post_count = Loading
    /\ page' = [page EXCEPT ![c].post_count = Ok(post_count(page[c].posts))]
    /\ UNCHANGED store

\* posts.await returns in the post_count fetcher.
ResolvePostCount(c) ==
    /\ page[c].post_count = Loading
    /\ Resolved(page[c].posts)
    /\ page' = [page EXCEPT ![c].post_count = Ok(post_count(page[c].posts))]
    /\ UNCHANGED store

\* posts.await returns in posts_view.
ResolvePostsView(c) ==
    /\ page[c].posts_view = Loading
    /\ Resolved(page[c].posts)
    /\ page' = [page EXCEPT ![c].posts_view = posts_view(page[c].posts)]
    /\ UNCHANGED store

\* Both Suspend futures of the home page's <Suspense/> are ready: its
\* content is sent.
RenderHome(c) ==
    /\ page[c].view = "HomePage"
    /\ Resolved(page[c].post_count)
    /\ Resolved(page[c].posts_view)
    /\ Len(page[c].out) = Len(ShellChunks(page[c].ssr, AppMeta, "Loading posts..."))
    /\ page' = [page EXCEPT ![c].out = @ \o
                  ResolvedChunks(page[c].ssr, page[c].meta, "My Great Blog",
                     [found |-> page[c].post_count.val, ul |-> page[c].posts_view])]
    /\ UNCHANGED store

\* The client navigates away or the connection closes: the page load and
\* any call in flight are dropped.
Abandon(c) ==
    /\ page[c].view # "Idle"
    /\ page' = [page EXCEPT ![c] = IdlePage]
    /\ UNCHANGED store

Next ==
    \E c \in Conns :
        \/ \E p \in Paths : Navigate(c, p)
        \/ ServeGetPost(c)
        \/ ServeListPostMetadata(c)
        \/ TransportFail(c)
        \/ ResolvePostResource(c)
        \/ RenderPost(c)
        \/ ResolvePosts(c)
        \/ ResolvePostCount(c)
        \/ ResolvePostsView(c)
        \/ RenderHome(c)
        \/ Abandon(c)

Spec == Init /\ [][Next]_vars

\* The Post component under any params map use_params can hand it: the id
\* key absent, or present with any segment.
ParamMaps == {NoParams} \cup {[n \in {"id"} |-> seg] : seg \in IdSegments}

\* The Post component is mounted with params map `map` under post route r.
MountPost(c, r, map) ==
    /\ page[c].view = "Idle"
    /\ page' = [page EXCEPT ![c] = Post(r.ssr, <<r.path[1].name>>, map)]
    /\ UNCHANGED store

NextView ==
    \/ Next
    \/ \E c \in Conns, r \in {Routes[i] : i \in 2..Len(Routes)}, map \in ParamMaps :
          MountPost(c, r, map)

SpecView == Init /\ [][NextView]_vars

(***************************************************************************)
(* Properties                                                              *)
(***************************************************************************)

\* The pages whose view is the Post component, mounted by the router.
PostPages == {c \in Conns : page[c].view = "Post" /\ Len(page[c].path) = 2}

\* The posts of the store that carry id n.
Carrying(n) == {i \in 1..Len(store) : store[i].id = n}

\* C1: every reply the server computes for get_post(id) is a success; its
\* value is Some(post) with post the store's post carrying that id, and
\* None when no post of the store carries it.
C1_GetPostLookup ==
    \A c \in Conns :
        (page[c].call.fn = "get_post" /\ page[c].call.stage = "replied") =>
            LET n == page[c].call.arg
                r == page[c].call.reply
            IN  /\ r.tag = "Ok"
                /\ Carrying(n) = {} => r.val = None
                /\ Carrying(n) # {} =>
                      /\ r.val.some
                      /\ r.val.val.id = n
                      /\ \E i \in Carrying(n) :
                            /\ r.val.val.title = store[i].title
                            /\ r.val.val.content = store[i].content

\* C1 witness: one reply with the post of id 1, another with None for 999.
C1_Witness ==
    \E c, d \in Conns :
        /\ page[c].call.fn = "get_post" /\ page[c].call.stage = "replied"
        /\ page[c].call.arg = 1 /\ page[c].call.reply.val.some
        /\ page[d].call.fn = "get_post" /\ page[d].call.stage = "replied"
        /\ page[d].call.arg = 999 /\ page[d].call.reply.val = None

\* C2: every reply the server computes for list_post_metadata() is a
\* success holding one entry per post of the store, in store order, the
\* i-th with the id and title of the i-th post and no other field.
C2_MetadataProjection ==
    \A c \in Conns :
        (page[c].call.fn = "list_post_metadata" /\ page[c].call.stage = "replied") =>
            LET r == page[c].call.reply
            IN  /\ r.tag = "Ok"
                /\ Len(r.val) = Len(store)
                /\ \A i \in 1..Len(store) :
                      /\ DOMAIN r.val[i] = {"id", "title"}
                      /\ r.val[i].id = store[i].id
                      /\ r.val[i].title = store[i].title

\* C2 witness: a metadata reply has been computed.
C2_Witness ==
    \E c \in Conns :
        /\ page[c].call.fn = "list_post_metadata"
        /\ page[c].call.stage = "replied"
        /\ Len(page[c].call.reply.val) = 3

\* C3: on a post route whose id segment does not parse as a usize, the
\* post resource holds InvalidId and get_post is never called for that
\* page load.
C3_UnparseableIdShortCircuits ==
    \A c \in PostPages :
        usize_from_str(page[c].path[2]).tag = "Err" =>
            /\ page[c].post_resource = Err("InvalidId")
            /\ page[c].call = NoCall
            /\ page[c].get_post_calls = 0
            /\ page[c].delivered = Unset

\* C3 witness: /post/abc has been rendered.
C3_Witness ==
    \E c \in PostPages :
        /\ page[c].path = <<SegPost, <<"a", "b", "c">>>>
        /\ Resolved(page[c].post_view)

LastBody(c) ==
    LET ch == page[c].out[Len(page[c].out)]
    IN  IF ch.part = "page" THEN ch.body[2] ELSE ch.body

\* Chunk ch shows a post's title and content.
ShowsPost(ch) ==
    \/ ch.part = "content" /\ DOMAIN ch.body = {"h1", "p"}
    \/ ch.part = "page" /\ DOMAIN ch.body[2] = {"h1", "p"}

\* C5: the Post view shows a post, and sets the page title and description
\* to its title and content, exactly when the id parsed and get_post
\* returned Ok(Some(post)); the post shown is the store's post with the
\* requested id; in every other outcome no chunk shows a post and the
\* error boundary's block is sent.
C5_PostRenderedIffFound ==
    \A c \in PostPages :
        LET pg == page[c]
            found == /\ pg.query.tag = "Ok"
                     /\ pg.delivered.tag = "Ok"
                     /\ pg.delivered.val.some
        IN  /\ pg.post_view = Loading =>
                  \A i \in 1..Len(pg.out) : ~ShowsPost(pg.out[i])
            /\ Resolved(pg.post_view) =>
                  /\ (pg.post_view.tag = "Ok") <=> found
                  /\ found =>
                        \E i \in Carrying(usize_from_str(pg.path[2]).val) :
                            /\ LastBody(c) = [h1 |-> store[i].title,
                                              p |-> store[i].content]
                            /\ pg.meta = [title |-> store[i].title,
                                          description |-> Some(store[i].content)]
                            /\ pg.errors = <<>>
                  /\ ~found =>
                        /\ \A i \in 1..Len(pg.out) : ~ShowsPost(pg.out[i])
                        /\ LastBody(c).class = "error"
                        /\ LastBody(c).h1 = "Something went wrong."
                        /\ pg.errors # <<>>
                        /\ pg.meta = AppMeta

\* C5 witness: /post/1 shows the second post while /post/999 shows the
\* error block.
C5_Witness ==
    \E c, d \in PostPages :
        /\ page[c].path = <<SegPost, <<"1">>>>
        /\ page[c].post_view.tag = "Ok"
        /\ LastBody(c).h1 = "My second post"
        /\ page[d].path = <<SegPost, <<"9", "9", "9">>>>
        /\ page[d].post_view.tag = "Err"

\* C6: the post count is resolved only when the metadata request has
\* resolved; the page load has made exactly one metadata call and none is
\* in flight; the count is the number of entries that call returned, and 0
\* when it failed.
C6_PostCountFromSameFetch ==
    \A c \in Conns :
        /\ page[c].list_calls <= 1
        /\ (page[c].view = "HomePage" /\ Resolved(page[c].post_count)) =>
              /\ Resolved(page[c].posts)
              /\ page[c].posts = page[c].delivered
              /\ page[c].list_calls = 1
              /\ page[c].call = NoCall
              /\ page[c].delivered.tag = "Ok" =>
                    page[c].post_count.val = Len(page[c].delivered.val)
              /\ page[c].delivered.tag = "Err" => page[c].post_count.val = 0

\* C6 witness: one home page counts 3 posts, another counts 0 after a
\* failed metadata request.
C6_Witness ==
    \E c, d \in Conns :
        /\ page[c].view = "HomePage" /\ page[c].post_count = Ok(3)
        /\ page[d].view = "HomePage" /\ page[d].post_count = Ok(0)
        /\ page[d].posts.tag = "Err"

\* C7: a request for / mounts HomePage, /post/{id} mounts Post in Async
\* mode, /post_in_order/{id} mounts Post in InOrder mode, and any other
\* path gets the body "Page not found." with no server function called.
C7_RouterDispatch ==
    \A c \in Conns :
        page[c].view # "Idle" =>
            LET p == page[c].path
            IN  CASE p = <<>> -> page[c].view = "HomePage"
                  [] Len(p) = 2 /\ p[1] = SegPost ->
                        page[c].view = "Post" /\ page[c].ssr = "Async"
                  [] Len(p) = 2 /\ p[1] = SegPostInOrder ->
                        page[c].view = "Post" /\ page[c].ssr = "InOrder"
                  [] OTHER ->
                        /\ page[c].view = "Fallback"
                        /\ Len(page[c].out) = 1
                        /\ page[c].out[1].body = "Page not found."
                        /\ page[c].call = NoCall
                        /\ page[c].get_post_calls = 0
                        /\ page[c].list_calls = 0

\* C7 witness: /nonexistent got the fallback and /post/1/x did too.
C7_Witness ==
    \E c, d \in Conns :
        /\ page[c].path = <<SegNonexistent>> /\ page[c].view = "Fallback"
        /\ page[d].path = <<SegPost, <<"1">>, <<"x">>>> /\ page[d].view = "Fallback"

\* C8: on /post/{id} nothing is sent until the post resource has resolved,
\* and the first chunk sent carries the post's title and description in
\* its head; on /post_in_order/{id} the shell is the first chunk, sent
\* from the start, and the content follows only once the post resource has
\* resolved.
C8_SsrModes ==
    \A c \in PostPages :
        LET pg == page[c]
        IN  /\ pg.path[1] = SegPost =>
                  /\ pg.out # <<>> => Resolved(pg.post_resource)
                  /\ (pg.out # <<>> /\ pg.post_view.tag = "Ok") =>
                        /\ pg.out[1].head.some
                        /\ pg.out[1].head.val.title = pg.post_view.val.h1
                        /\ pg.out[1].head.val.description = Some(pg.post_view.val.p)
                        /\ pg.out[1].body[2].h1 = pg.delivered.val.val.title
            /\ pg.path[1] = SegPostInOrder =>
                  /\ Len(pg.out) >= 1
                  /\ pg.out[1].part = "shell"
                  /\ \A i \in 2..Len(pg.out) : pg.out[i].part = "content"
                  /\ Len(pg.out) > 1 => Resolved(pg.post_resource)
                  /\ (Len(pg.out) > 1 /\ pg.post_view.tag = "Ok") =>
                        pg.out[2].body.h1 = pg.delivered.val.val.title

\* C8 witness: /post/1 has sent its one chunk, with the post's title in
\* its head, while /post_in_order/1 has sent its shell and waits.
C8_Witness ==
    \E c, d \in PostPages :
        /\ page[c].path[1] = SegPost
        /\ Len(page[c].out) = 1
        /\ page[c].out[1].head.val.title = "My second post"
        /\ page[d].path[1] = SegPostInOrder
        /\ page[d].post_resource = Loading
        /\ Len(page[d].out) = 1

\* C9: the store is always its seed contents: three posts, never changed,
\* not empty, their ids pairwise distinct.
C9_StoreImmutable ==
    /\ store = POSTS
    /\ Len(store) = 3
    /\ store # <<>>
    /\ \A i, j \in 1..Len(store) : store[i].id = store[j].id => i = j

\* C9 witness: a post has been served and rendered on one connection
\* while a metadata reply is in flight on another.
C9_Witness ==
    \E c, d \in Conns :
        /\ page[c].view = "Post" /\ page[c].post_view.tag = "Ok"
        /\ page[d].call.fn = "list_post_metadata" /\ page[d].call.stage = "replied"

\* C10: whatever made the Post view fail, the one error the error boundary
\* holds is ServerError and its block lists "Server error."; after the
\* failure no call is in flight and the page load has called get_post at
\* most once (not at all for an invalid id).
C10_ErrorsCollapseToServerError ==
    \A c \in Conns :
        /\ \A i \in 1..Len(page[c].errors) : page[c].errors[i] = "ServerError"
        /\ (page[c].view = "Post" /\ page[c].post_view.tag = "Err") =>
              /\ page[c].errors = <<"ServerError">>
              /\ LastBody(c).ul = <<"Server error.">>
              /\ page[c].call = NoCall
              /\ page[c].get_post_calls = (IF page[c].query.tag = "Ok" THEN 1 ELSE 0)

\* C10 witness: a page that failed with PostNotFound and a page that
\* failed with InvalidId both show the error block.
C10_Witness ==
    \E c, d \in Conns :
        /\ page[c].post_resource = Ok(Err("PostNotFound"))
        /\ page[c].post_view.tag = "Err"
        /\ page[d].post_resource = Err("InvalidId")
        /\ page[d].post_view.tag = "Err"

====
